---------------------------- MODULE Spec2Model ----------------------------
(***************************************************************************)
(* wagtailapi/views.py: the read-only JSON API over pages, images and      *)
(* documents.  Each view is one action; the content store is read, never   *)
(* written.  A request is drawn when the server is idle, the view answers  *)
(* it, and Deliver hands the answer back and returns to idle.              *)
(*                                                                         *)
(* Spec runs the page views over a sample of page stores, SpecMedia the    *)
(* image and document views over stores of 0 .. MaxImages images and       *)
(* 0 .. MaxDocuments documents.                                            *)
(*                                                                         *)
(* A query-string value is a sequence of strings: one character each where *)
(* the view parses the value (int()), the dot-separated parts of a type,   *)
(* one whole word where the view only compares it.  A parameter that is    *)
(* not in the query string has the value Absent.                           *)
(*                                                                         *)
(* What the views call but do not define behaves as the library does:      *)
(* int() and Page.objects.get(id=...) raise ValueError for a value that is *)
(* no integer, a queryset slice refuses negative bounds (AssertionError),  *)
(* resolve_model_string raises ValueError for a name that is not           *)
(* app_label.model_name and LookupError for an unknown model, a name bound *)
(* nowhere raises NameError.  An exception that leaves a view is answered  *)
(* by the framework with status 500.                                       *)
(***************************************************************************)
EXTENDS Integers, Sequences, FiniteSets, TLC

VARIABLES live, public, images, documents, pc, endpoint, request, response

vars == <<live, public, images, documents, pc, endpoint, request, response>>

---------------------------------------------------------------------------
(* Bounds of the model *)

MaxOffset == 2
MaxLimit == 2
MaxImages == 25
MaxDocuments == 11
MaxPageNumber == 4

\* Program constants

DefaultLimit == 20
PageSize == 10

---------------------------------------------------------------------------
(* The content store (wagtail's Page tree), a fixed sample.                *)
(*       1                                                                 *)
(*      / \                                                                *)
(*     2   3                                                               *)
(*     |                                                                   *)
(*     4                                                                   *)

Pages == 1 .. 4

\* parent of each page; 0 for the tree's root
Parent == <<0, 1, 1, 2>>

\* rank of each page's path: the default ordering of a Page queryset
PathRank == <<1, 2, 4, 3>>

\* each page's title (titles are distinct), and its rank in collation order
Title == <<"c", "d", "a", "b">>
TitleRank == <<3, 4, 1, 2>>

\* content type of each page
TypeOf == <<"Page", "Page", "BlogPage", "BlogPage">>

\* the search backend's index: for a query, the matching pages by relevance
SearchIndex == <<3, 1, 4>>

Absent == <<"absent">>


---------------------------------------------------------------------------
(* Python and Django helpers the views call *)

Digits == <<"0", "1", "2", "3", "4", "5", "6", "7", "8", "9">>

IsDigit(c) == \E d \in 1 .. 10 : Digits[d] = c

DigitValue(c) == (CHOOSE d \in 1 .. 10 : Digits[d] = c) - 1

\* the characters of s after an optional sign
Unsigned(s) == IF s # <<>> /\ Head(s) \in {"-", "+"} THEN Tail(s) ELSE s

\* int(s) succeeds: an optional sign followed by one or more decimal digits
IntParses(s) ==
    /\ Unsigned(s) # <<>>
    /\ \A i \in 1 .. Len(Unsigned(s)) : IsDigit(Unsigned(s)[i])

RECURSIVE DigitsValue(_)
DigitsValue(s) ==
    IF s = <<>> THEN 0
    ELSE 10 * DigitsValue(SubSeq(s, 1, Len(s) - 1)) + DigitValue(s[Len(s)])

\* the value of int(s) when it succeeds
IntValue(s) ==
    IF Head(s) = "-" THEN 0 - DigitsValue(Unsigned(s)) ELSE DigitsValue(Unsigned(s))

Range(seq) == {seq[i] : i \in 1 .. Len(seq)}

Min(a, b) == IF a < b THEN a ELSE b

\* seq[start:stop] of a queryset: Python's slice for bounds >= 0 (Django
\* refuses negative bounds before slicing, see Paginate and page_listing_view)
Slice(seq, start, stop) ==
    LET lo == Min(start, Len(seq))
        hi == Min(stop, Len(seq))
    IN  IF hi <= lo THEN <<>> ELSE [i \in 1 .. (hi - lo) |-> seq[lo + i]]

\* the elements of S in ascending order of key
RECURSIVE SortBy(_, _)
SortBy(S, key) ==
    IF S = {} THEN <<>>
    ELSE LET m == CHOOSE x \in S : \A y \in S : key[x] <= key[y]
         IN  <<m>> \o SortBy(S \ {m}, key)

\* queryset.order_by(field)
order_by(qs, key) == SortBy(Range(qs), key)

\* queryset.filter(...): the elements of qs that are in S, in qs's order
Keep(qs, S) == SelectSeq(qs, LAMBDA p : p \in S)

IdOf == [p \in Pages |-> p]

\* rank of each page's "date", the field BlogPage and EventPage declare
DateOf == <<2, 1, 3, 4>>

---------------------------------------------------------------------------
(* Outcomes of a view body and the responses made from them *)

NoMessage == ""
Null == <<>>

Ok(items) ==
    [status |-> 200, raised |-> "", message |-> NoMessage, items |-> items,
     count |-> 0, previous |-> Null, next |-> Null]

Raise(exc, msg) ==
    [status |-> 0, raised |-> exc, message |-> msg, items |-> <<>>,
     count |-> 0, previous |-> Null, next |-> Null]

\* json_response(data, cls): the body is data, the status is cls's
json_response(data, status) == [data EXCEPT !.status = status, !.raised = ""]

\* The decorator of every view.  Http404 and BadAPIRequestError become JSON
\* responses; any other exception is not caught and leaves the view, which
\* the framework answers with status 500.
format_api_exceptions(outcome) ==
    IF outcome.raised = "Http404" THEN json_response(outcome, 404)
    ELSE IF outcome.raised = "BadAPIRequestError" THEN json_response(outcome, 400)
    ELSE IF outcome.raised # "" THEN [outcome EXCEPT !.status = 500]
    ELSE outcome

---------------------------------------------------------------------------
(* Names the module binds *)

\* what views.py imports or defines at module level (lines 1-225)
ModuleNames ==
    {"absolute_import", "json", "urllib", "wraps", "filterset_factory",
     "HttpResponse", "HttpResponseBadRequest", "HttpResponseNotFound", "Http404",
     "get_object_or_404", "Paginator", "EmptyPage", "Page", "get_image_model",
     "Document", "resolve_model_string", "serialize", "WagtailAPIJSONEncoder",
     "BadAPIRequestError", "get_base_queryset", "json_response",
     "format_api_exceptions", "page_listing", "page_detail", "image_listing",
     "image_detail", "document_listing", "document_detail"}

\* what page_listing has bound when it reaches the ordering stage
PageListingLocals ==
    {"request", "model_name", "model", "queryset", "filterset_class",
     "parent_page_id", "parent_page", "order_by"}

\* evaluating a name raises NameError unless a scope binds it
NameBound(name, locals) == name \in locals \cup ModuleNames

---------------------------------------------------------------------------
(* Content models *)

\* resolve_model_string's registry: <<app_label, model_name>> to model
ModelRegistry ==
    {<<<<"wagtailcore", "Page">>, "Page">>,
     <<<<"demo", "BlogPage">>, "BlogPage">>,
     <<<<"demo", "EventPage">>, "EventPage">>}

\* attributes a model class declares
ModelAttrs(model) ==
    IF model = "BlogPage" THEN {"api_fields"}
    ELSE IF model = "EventPage" THEN {"api_fields", "api_filterset_class"}
    ELSE {}

\* model.api_fields
ApiFields(model) == IF "api_fields" \in ModelAttrs(model) THEN {"date"} ELSE {}

\* resolve_model_string(model_name), model_name split at its dots: a name
\* that is not app_label.model_name raises ValueError, an unknown one
\* LookupError
resolve_model_string(model_name) ==
    IF Len(model_name) # 2 THEN [raised |-> "ValueError", model |-> ""]
    ELSE IF \E e \in ModelRegistry : e[1] = model_name
         THEN [raised |-> "",
               model |-> (CHOOSE e \in ModelRegistry : e[1] = model_name)[2]]
    ELSE [raised |-> "LookupError", model |-> ""]

\* model.objects: the pages of a model, in path order; Page holds them all
Objects(model) ==
    SortBy({p \in Pages : model = "Page" \/ TypeOf[p] = model}, PathRank)

RECURSIVE IsDescendant(_, _)
\* p is root or lies below it
IsDescendant(p, root) ==
    IF p = root THEN TRUE
    ELSE IF Parent[p] = 0 THEN FALSE
    ELSE IsDescendant(Parent[p], root)

\* the scope of a site: what the base queryset may hold
InScope(st, root) ==
    {p \in Pages : p \in st.public /\ p \in st.live /\ IsDescendant(p, root)}

\* get_base_queryset without the "Filter by site" step
get_base_queryset_unscoped(st, root, model) ==
    Keep(Objects(model), st.public \cap st.live)

\* get_base_queryset(request, model)
get_base_queryset(st, root, model) == Keep(Objects(model), InScope(st, root))

---------------------------------------------------------------------------
(* page_listing, stage by stage *)

\* filterset_class(request.GET, queryset=queryset).qs: the query parameters
\* that name a field of the model filter on it; here the field title
field_filter(qs, req) ==
    IF req.title = Absent THEN qs
    ELSE Keep(qs, {p \in Pages : <<Title[p]>> = req.title})

\* queryset.child_of(parent_page): the direct children of the parent
child_of(qs, parent) == Keep(qs, {p \in Pages : Parent[p] = parent})

\* apply_ordering with an unrecognised value falling back to the id order
apply_ordering_by_id(qs, model, order, perm) ==
    IF order = Absent THEN qs
    ELSE IF order = <<"random">> THEN Keep(perm, Range(qs))
    ELSE IF order = <<"title">> THEN order_by(qs, TitleRank)
    ELSE order_by(qs, IdOf)

\* the "Ordering" stage; perm is the order the database's random() gives
apply_ordering(qs, model, order, perm) ==
    IF order = Absent THEN qs
    ELSE IF order = <<"random">> THEN Keep(perm, Range(qs))
    ELSE IF order = <<"id">> THEN order_by(qs, IdOf)
    ELSE IF order = <<"title">> THEN order_by(qs, TitleRank)
    ELSE IF "api_fields" \in ModelAttrs(model) /\ order[1] \in ApiFields(model)
         THEN \* "obj" is evaluated first; the bare except swallows its
              \* NameError and the queryset stays as it was
              IF NameBound("obj", PageListingLocals) /\
                 NameBound("field_name", PageListingLocals)
              THEN order_by(qs, DateOf)
              ELSE qs
    ELSE qs

\* queryset.search(search_query): the matches within queryset, by relevance
search(qs, search_query) == Keep(SearchIndex, Range(qs))

\* Paginate with stop = limit in place of stop = offset + limit
Paginate_stop_is_limit(qs, req) ==
    IF req.offset # Absent /\ ~IntParses(req.offset)
    THEN Raise("ValueError", "invalid literal for int()")
    ELSE IF req.limit # Absent /\ ~IntParses(req.limit)
    THEN Raise("ValueError", "invalid literal for int()")
    ELSE LET offset == IF req.offset = Absent THEN 0 ELSE IntValue(req.offset)
             limit == IF req.limit = Absent THEN DefaultLimit ELSE IntValue(req.limit)
         IN  IF offset < 0 \/ limit < 0
             THEN Raise("AssertionError", "Negative indexing is not supported.")
             ELSE Ok(Slice(qs, offset, limit))

\* the "Pagination" stage: int() of offset and limit, then the slice
Paginate(qs, req) ==
    IF req.offset # Absent /\ ~IntParses(req.offset)
    THEN Raise("ValueError", "invalid literal for int()")
    ELSE IF req.limit # Absent /\ ~IntParses(req.limit)
    THEN Raise("ValueError", "invalid literal for int()")
    ELSE LET offset == IF req.offset = Absent THEN 0 ELSE IntValue(req.offset)
             limit == IF req.limit = Absent THEN DefaultLimit ELSE IntValue(req.limit)
             start == offset
             stop == offset + limit
         IN  IF start < 0 \/ stop < 0
             THEN Raise("AssertionError", "Negative indexing is not supported.")
             ELSE Ok(Slice(qs, start, stop))

\* the model page_listing works on: Page when type is absent
ResolveType(req) ==
    IF req.type = Absent THEN [raised |-> "", model |-> "Page"]
    ELSE resolve_model_string(req.type)

\* the queryset page_listing has built when it reaches "Pagination": scoped,
\* field-filtered, restricted to the parent's children, ordered, searched
Collection(st, req, perm) ==
    LET model == ResolveType(req).model
        base == get_base_queryset(st, req.site_root, model)
        filtered == field_filter(base, req)
        children == IF req.child_of = Absent THEN filtered
                    ELSE child_of(filtered, IntValue(req.child_of))
        ordered == apply_ordering(children, model, req.order, perm)
    IN  IF req.search = Absent THEN ordered ELSE search(ordered, req.search)

\* the body of page_listing
page_listing_view(st, req, perm) ==
    LET resolved == ResolveType(req)
    IN  IF resolved.raised = "LookupError"
        THEN Raise("Http404", "Type doesn't exist")
        ELSE IF resolved.raised # ""
        THEN Raise(resolved.raised, "Can not resolve into a model")
        ELSE IF "api_filterset_class" \in ModelAttrs(resolved.model) /\
                "filterset_class" \notin ModelAttrs(resolved.model)
        THEN Raise("AttributeError", "has no attribute 'filterset_class'")
        ELSE IF req.child_of # Absent /\ ~IntParses(req.child_of)
        THEN Raise("ValueError", "invalid literal for int()")
        ELSE IF req.child_of # Absent /\ IntValue(req.child_of) \notin Pages
        THEN Raise("Http404", "Parent page doesn't exist")
        ELSE Paginate(Collection(st, req, perm), req)

\* the body of page_detail
page_detail_view(st, req) ==
    IF req.pk \in Range(get_base_queryset(st, req.site_root, "Page"))
    THEN Ok(<<req.pk>>)
    ELSE Raise("Http404", "No Page matches the given query.")

---------------------------------------------------------------------------
(* image_listing and document_listing *)

\* parse_int(value, name), were the name bound: the integer, or
\* BadAPIRequestError for a value that is not one
parse_int(value, name) ==
    IF value = Absent THEN [raised |-> "", value |-> 1]
    ELSE IF IntParses(value) THEN [raised |-> "", value |-> IntValue(value)]
    ELSE [raised |-> "BadAPIRequestError", value |-> 0]

\* Paginator(queryset, 10).num_pages; an empty first page is allowed
num_pages(count) ==
    IF count = 0 THEN 1 ELSE (count + PageSize - 1) \div PageSize

RECURSIVE ToDigits(_)
\* str(n) for n >= 0
ToDigits(n) ==
    IF n < 10 THEN <<Digits[n + 1]>>
    ELSE ToDigits(n \div 10) \o <<Digits[(n % 10) + 1]>>

\* request.path + '?' + urllib.urlencode({'page': number})
PageUrl(path, number) == <<path, "?", "page", "=">> \o ToDigits(number)

\* the body of image_listing and of document_listing, which differ in the
\* queryset only
listing_view(queryset, req) ==
    IF ~NameBound("parse_int", {"request", "queryset"})
    THEN Raise("NameError", "global name 'parse_int' is not defined")
    ELSE LET parsed == parse_int(req.page, "page")
             page_number == parsed.value
             count == Len(queryset)
             bottom == (page_number - 1) * PageSize
             top == IF bottom + PageSize >= count THEN count
                    ELSE bottom + PageSize
             has_next == page_number < num_pages(count)
             has_previous == page_number > 1
         IN  IF parsed.raised # ""
             THEN Raise(parsed.raised, "page must be a positive integer")
             ELSE IF page_number < 1 \/ page_number > num_pages(count)
             THEN Raise("Http404", "This page has no results")
             ELSE [Ok(Slice(queryset, bottom, top)) EXCEPT
                     !.count = count,
                     !.next = IF has_next THEN PageUrl(req.path, page_number + 1)
                              ELSE Null,
                     !.previous = IF has_previous
                                  THEN PageUrl(req.path, page_number - 1)
                                  ELSE Null]

\* the body of image_detail and of document_detail
detail_view(queryset, req) ==
    IF req.pk \in Range(queryset) THEN Ok(<<req.pk>>)
    ELSE Raise("Http404", "No object matches the given query.")

---------------------------------------------------------------------------
(* Requests *)

NoRequest ==
    [site_root |-> 0, path |-> "", pk |-> 0, type |-> Absent, title |-> Absent,
     child_of |-> Absent, order |-> Absent, search |-> Absent,
     offset |-> Absent, limit |-> Absent, page |-> Absent]

NoResponse == Raise("", NoMessage)

NotAnInteger == <<"a", "b", "c">>

SiteRoots == {1, 2}

TypeValues ==
    {Absent, <<"wagtailcore", "Page">>, <<"demo", "BlogPage">>,
     <<"demo", "EventPage">>, <<"demo", "Nope">>, <<"BlogPage">>}

TitleValues == {Absent, <<"b">>}

ChildOfValues == {Absent, <<"1">>, <<"9">>, NotAnInteger}

OrderValues ==
    {Absent, <<"random">>, <<"id">>, <<"title">>, <<"date">>, <<"bogus">>}

SearchValues == {Absent, <<"q">>}

OffsetValues ==
    {Absent, <<"-", "1">>, NotAnInteger} \cup {ToDigits(n) : n \in 0 .. MaxOffset}

LimitValues == {Absent, NotAnInteger} \cup {ToDigits(n) : n \in 0 .. MaxLimit}

PageValues ==
    {Absent, NotAnInteger} \cup {ToDigits(n) : n \in 0 .. MaxPageNumber}

PageListingRequests ==
    {[NoRequest EXCEPT !.site_root = r, !.path = "/pages/", !.type = t[1],
        !.title = t[2], !.child_of = c, !.order = o[1], !.search = o[2],
        !.offset = sl[1], !.limit = sl[2]] :
        r \in SiteRoots, t \in TypeValues \X TitleValues, c \in ChildOfValues,
        o \in OrderValues \X SearchValues, sl \in OffsetValues \X LimitValues}

\* the orders order_by('?') can give
RandomOrders(req) ==
    IF req.order = <<"random">>
    THEN {f \in [1 .. Cardinality(Pages) -> Pages] : Range(f) = Pages}
    ELSE {SortBy(Pages, IdOf)}

Store == [live |-> live, public |-> public]

\* the ids 1 .. n in order: Model.objects.all() of a store holding n items
Ids(n) == [i \in 1 .. n |-> i]

---------------------------------------------------------------------------
(* The state machine *)

StoreFixed == UNCHANGED <<live, public, images, documents>>

Init ==
    /\ live \in {Pages \ S : S \in {{}, {4}}}
    /\ public \in {Pages \ S : S \in {{}, {3}}}
    /\ images = <<>>
    /\ documents = <<>>
    /\ pc = "idle"
    /\ endpoint = ""
    /\ request = NoRequest
    /\ response = NoResponse

InitMedia ==
    /\ live = Pages
    /\ public = Pages
    /\ images \in {Ids(n) : n \in 0 .. MaxImages}
    /\ documents \in {Ids(n) : n \in 0 .. MaxDocuments}
    /\ pc = "idle"
    /\ endpoint = ""
    /\ request = NoRequest
    /\ response = NoResponse

Answer(name, req, outcome) ==
    /\ pc' = "done"
    /\ endpoint' = name
    /\ request' = req
    /\ response' = format_api_exceptions(outcome)
    /\ StoreFixed

page_listing ==
    /\ pc = "idle"
    /\ \E req \in PageListingRequests :
         \E perm \in RandomOrders(req) :
            Answer("page_listing", req, page_listing_view(Store, req, perm))

page_detail ==
    /\ pc = "idle"
    /\ \E r \in SiteRoots, pk \in 1 .. Cardinality(Pages) + 1 :
         LET req == [NoRequest EXCEPT !.site_root = r, !.path = "/pages/", !.pk = pk]
         IN  Answer("page_detail", req, page_detail_view(Store, req))

image_listing ==
    /\ pc = "idle"
    /\ \E v \in PageValues :
         LET req == [NoRequest EXCEPT !.path = "/images/", !.page = v]
         IN  Answer("image_listing", req, listing_view(images, req))

image_detail ==
    /\ pc = "idle"
    /\ \E pk \in 1 .. MaxImages + 1 :
         LET req == [NoRequest EXCEPT !.path = "/images/", !.pk = pk]
         IN  Answer("image_detail", req, detail_view(images, req))

document_listing ==
    /\ pc = "idle"
    /\ \E v \in PageValues :
         LET req == [NoRequest EXCEPT !.path = "/documents/", !.page = v]
         IN  Answer("document_listing", req, listing_view(documents, req))

document_detail ==
    /\ pc = "idle"
    /\ \E pk \in 1 .. MaxDocuments + 1 :
         LET req == [NoRequest EXCEPT !.path = "/documents/", !.pk = pk]
         IN  Answer("document_detail", req, detail_view(documents, req))

\* the response is sent and the server waits for the next request
Deliver ==
    /\ pc = "done"
    /\ pc' = "idle"
    /\ endpoint' = ""
    /\ request' = NoRequest
    /\ response' = NoResponse
    /\ StoreFixed

Next == page_listing \/ page_detail \/ Deliver

NextMedia ==
    image_listing \/ image_detail \/ document_listing \/ document_detail \/ Deliver

Spec == Init /\ [][Next]_vars

SpecMedia == InitMedia /\ [][NextMedia]_vars

---------------------------------------------------------------------------
(* What the claims speak of *)

Answered(name) == pc = "done" /\ endpoint = name

IdOrder == SortBy(Pages, IdOf)

\* request with the parameters named in F left out of the query string
Without(req, F) == [f \in DOMAIN req |-> IF f \in F THEN Absent ELSE req[f]]

\* the answer page_listing gives to req on the present store
AnswerTo(req) == format_api_exceptions(page_listing_view(Store, req, IdOrder))

NonInteger(v) == v # Absent /\ ~IntParses(v)

\* v is absent or an integer >= 0
NaturalOrAbsent(v) == v = Absent \/ (IntParses(v) /\ IntValue(v) >= 0)

ValueOr(v, default) == IF v = Absent THEN default ELSE IntValue(v)

ItemsOf(r) == {r.items[i] : i \in 1 .. Len(r.items)}

---------------------------------------------------------------------------
(* C1: every item page_listing returns is live, public and inside the      *)
(* subtree of the requesting site's root, whatever the query parameters,   *)
(* a child_of parent outside the subtree included; page_detail answers 200 *)
(* exactly for such an item and 404 otherwise.                             *)

C1_ScopeIsNeverLeft ==
    /\ Answered("page_listing") =>
         \A p \in ItemsOf(response) :
            p \in live /\ p \in public /\ IsDescendant(p, request.site_root)
    /\ Answered("page_detail") =>
         IF /\ request.pk \in Pages
            /\ request.pk \in live
            /\ request.pk \in public
            /\ IsDescendant(request.pk, request.site_root)
         THEN response.status = 200
         ELSE response.status = 404

\* a listing of the children of page 1 for the site rooted at page 2, with
\* a page of the site unpublished: page 3, the other child of 1, stays out
C1_Witness ==
    /\ Answered("page_listing")
    /\ request.site_root = 2
    /\ request.child_of = <<"1">>
    /\ 4 \notin live
    /\ response.status = 200
    /\ response.items = <<2>>

(* C2: a value of offset or limit (page listing) or of page (image and     *)
(* document listing) that is not an integer is answered with status 400    *)
(* and a message.                                                          *)

C2_NonIntegerIs400 ==
    /\ ( /\ Answered("page_listing")
         /\ NonInteger(request.offset) \/ NonInteger(request.limit)
         /\ AnswerTo(Without(request, {"offset", "limit"})).status = 200 )
       => response.status = 400 /\ response.message # NoMessage
    /\ ( /\ Answered("image_listing") \/ Answered("document_listing")
         /\ NonInteger(request.page) )
       => response.status = 400 /\ response.message # NoMessage

(* C3: a child_of value that is not the id of an existing page, a value    *)
(* that is no integer included, is answered with status 404 and the        *)
(* message "Parent page doesn't exist".                                    *)

C3_UnknownParentIs404 ==
    ( /\ Answered("page_listing")
      /\ request.child_of # Absent
      /\ ~(IntParses(request.child_of) /\ IntValue(request.child_of) \in Pages)
      /\ AnswerTo(Without(request, {"child_of"})).status = 200 )
    => response.status = 404 /\ response.message = "Parent page doesn't exist"

(* C4: a type value that resolves to no content model is answered with     *)
(* status 404 and the message "Type doesn't exist", whatever the other     *)
(* parameters are; without type the listing is the one of the Page model.  *)

C4_UnknownTypeIs404 ==
    /\ ( /\ Answered("page_listing")
         /\ request.type # Absent
         /\ ~\E e \in ModelRegistry : e[1] = request.type )
       => response.status = 404 /\ response.message = "Type doesn't exist"
    /\ ( /\ Answered("page_listing")
         /\ request.type = Absent
         /\ request.order # <<"random">> )
       => response = AnswerTo([request EXCEPT !.type = <<"wagtailcore", "Page">>])

(* C5: with offset >= 0 and limit >= 0 (0 and 20 when absent) a listing    *)
(* that succeeds holds exactly the items at positions offset+1 ..          *)
(* offset+limit of the filtered, ordered and searched collection, in its   *)
(* order: as many as there are from offset on, and no more than limit.     *)

C5_SliceOfTheCollection ==
    ( /\ Answered("page_listing")
      /\ NaturalOrAbsent(request.offset)
      /\ NaturalOrAbsent(request.limit) )
    => /\ response.raised # "AssertionError"
       /\ response.status = 200 =>
            \E perm \in RandomOrders(request) :
               LET coll == Collection(Store, request, perm)
                   offset == ValueOr(request.offset, 0)
                   limit == ValueOr(request.limit, 20)
                   rest == IF Len(coll) > offset THEN Len(coll) - offset ELSE 0
               IN  /\ Len(response.items) = Min(limit, rest)
                   /\ \A i \in 1 .. Len(response.items) :
                         response.items[i] = coll[offset + i]

\* the second and third of four pages: offset 1, limit 2
C5_Witness ==
    /\ Answered("page_listing")
    /\ request.offset = <<"1">>
    /\ request.limit = <<"2">>
    /\ request.order = Absent
    /\ response.status = 200
    /\ response.items = <<2, 4>>
    /\ Len(Collection(Store, request, IdOrder)) = 4

(* C6: an order value that is one of the model's declared api fields       *)
(* orders the results by that field.                                       *)

C6_OrderedByDeclaredField ==
    ( /\ Answered("page_listing")
      /\ response.status = 200
      /\ request.search = Absent
      /\ request.order \notin {Absent, <<"random">>, <<"id">>, <<"title">>}
      /\ request.order[1] \in ApiFields(ResolveType(request).model) )
    => \A i, j \in 1 .. Len(response.items) :
          i < j => DateOf[response.items[i]] <= DateOf[response.items[j]]

(* C7: an order value that is not random, id, title or a declared field    *)
(* gives the answer of the same request without order: no error, the same  *)
(* items in the same order.                                                *)

Unrecognised(req) ==
    /\ req.order \notin {Absent, <<"random">>, <<"id">>, <<"title">>}
    /\ ResolveType(req).raised # "" \/
          req.order[1] \notin ApiFields(ResolveType(req).model)

C7_UnknownOrderIsIgnored ==
    (Answered("page_listing") /\ Unrecognised(request))
    => /\ response = AnswerTo(Without(request, {"order"}))
       /\ AnswerTo(Without(request, {"order"})).status = 200
            => response.status = 200

\* order=bogus on the whole tree: the path order 1, 2, 4, 3, not the id order
C7_Witness ==
    /\ Answered("page_listing")
    /\ request.order = <<"bogus">>
    /\ response.status = 200
    /\ response.items = <<1, 2, 4, 3>>

(* C8: in image_listing and document_listing an integer page number below  *)
(* 1 or beyond the last page is answered with status 404 and the message   *)
(* "This page has no results".                                             *)

ListedStore == IF endpoint = "image_listing" THEN images ELSE documents

C8_PageOutOfRangeIs404 ==
    ( /\ Answered("image_listing") \/ Answered("document_listing")
      /\ request.page # Absent
      /\ IntParses(request.page)
      /\ \/ IntValue(request.page) < 1
         \/ IntValue(request.page) > num_pages(Len(ListedStore)) )
    => response.status = 404 /\ response.message = "This page has no results"

(* C9: for N images or documents and a valid page number p (1 when absent) *)
(* the listing answers 200 with count N, the items at positions            *)
(* 10(p-1)+1 .. min(10p, N), next the path with ?page=p+1 when a later     *)
(* page exists and previous the path with ?page=p-1 when p > 1, null       *)
(* otherwise.                                                              *)

C9_PageOfTheCollection ==
    ( /\ Answered("image_listing") \/ Answered("document_listing")
      /\ request.page = Absent \/ IntParses(request.page)
      /\ ValueOr(request.page, 1) >= 1
      /\ ValueOr(request.page, 1) <= num_pages(Len(ListedStore)) )
    => LET p == ValueOr(request.page, 1)
           N == Len(ListedStore)
           last == Min(10 * p, N)
       IN  /\ response.status = 200
           /\ response.count = N
           /\ Len(response.items) = last - 10 * (p - 1)
           /\ \A i \in 1 .. Len(response.items) :
                 response.items[i] = ListedStore[10 * (p - 1) + i]
           /\ response.next = IF 10 * p < N THEN PageUrl(request.path, p + 1)
                              ELSE Null
           /\ response.previous = IF p > 1 THEN PageUrl(request.path, p - 1)
                                  ELSE Null

(* C10: every request to an endpoint is answered with status 200, 404 or   *)
(* 400, whatever its parameters; nothing raised in a view leaves           *)
(* format_api_exceptions otherwise, given that the collaborators do not    *)
(* fail (here: the type, when given, names a model, and the model's class  *)
(* is sound).                                                              *)

ModelIsSound(req) ==
    /\ ResolveType(req).raised = ""
    /\ "api_filterset_class" \in ModelAttrs(ResolveType(req).model)
          => "filterset_class" \in ModelAttrs(ResolveType(req).model)

C10_NoOtherStatus ==
    (pc = "done" /\ ModelIsSound(request)) => response.status \in {200, 404, 400}

===========================================================================
